---- MODULE Spec2Model ----
(***************************************************************************)
(* Medallion ETL pipeline: the LangGraph workflow of graph_workflow.py,    *)
(* the agents it runs as nodes and the two conditional routers.            *)
(*                                                                         *)
(* The ETLState dict is the record `state`; `node` is the node or router   *)
(* the graph runs next.  Every outcome of an external collaborator (LLM,   *)
(* GitHub, Databricks) is an input of the step that calls it.              *)
(***************************************************************************)
EXTENDS Integers, Sequences, FiniteSets, TLC

VARIABLES
    state,              \* the ETLState dict threaded through the nodes
    node,               \* node / router to run next, "END" or "raised"
    last_node,          \* node / router that ran last ("START" before any)
    steps,              \* nodes and routers run so far (also the clock)
    plan_visits,        \* how often the planner node ran
    approval_observed,  \* layers whose PR Execute saw merged == True
    exec_status_of,     \* latest execution_status Execute wrote per layer
    last_pr_check,      \* result of the latest check_pr_status call
    last_analysis,      \* result of the latest analyze_layer_output call
    enrich_layer,       \* current_layer of the latest Enrich call
    invocations,        \* number of ainvoke calls on the graph
    resume_layer,       \* layer awaiting its merge when the graph was re-invoked
    all_ok,             \* so far every review approved, every PR check merged,
                        \* every execution and every analysis succeeded
    collab_failed       \* a collaborator the latest node called has failed

vars == <<state, node, last_node, steps, plan_visits, approval_observed,
          exec_status_of, last_pr_check, last_analysis, enrich_layer,
          invocations, resume_layer, all_ok, collab_failed>>

(***************************************************************************)
(* Bounds of the model                                                     *)
(***************************************************************************)
MaxPlanVisits == 4
MaxErrors == 2
MaxQueries == 1
MaxInvocations == 2

(***************************************************************************)
(* Layers and table names                                                  *)
(***************************************************************************)
Layers == {"bronze", "silver", "gold"}
TargetLayers == <<"bronze", "silver", "gold">>

\* A table name is the sequence of its dot-separated parts; a part is a
\* pair <<base, layer suffix>> ("schema" + "_" + "silver").
EmptyString == << <<"", "">> >>
GoodSource == << <<"catalog", "">>, <<"schema", "">>, <<"table", "">> >>
OnePartSource == << <<"table", "">> >>
SourceTables == {GoodSource, OnePartSource}

\* str.split("."): the parts of the name
Split(name) == name

\* f"{catalog}.{schema}_{current_layer}.{table}_{current_layer}"
TargetTable(source, layer) ==
    LET parts == Split(source)
    IN  << parts[1], <<parts[2][1], layer>>, <<parts[3][1], layer>> >>

InSeq(x, s) == \E i \in 1..Len(s) : s[i] = x

\* list.remove(x): drops the first occurrence of x
Remove(s, x) ==
    LET i == CHOOSE k \in 1..Len(s) : s[k] = x /\ \A j \in 1..(k-1) : s[j] # x
    IN  SubSeq(s, 1, i-1) \o SubSeq(s, i+1, Len(s))

NoContext == [set |-> FALSE, layer_name |-> "", table_name |-> EmptyString,
              quality_ok |-> FALSE, pr_number |-> 0, pr_merged |-> FALSE,
              transformation_summary |-> << >>, execution_timestamp |-> 0]

(***************************************************************************)
(* Collaborator outcomes                                                   *)
(***************************************************************************)
\* Texts an LLM returns (plans, code, tests) are opaque: <<"text", layer>>
\* stands for any text produced for that layer.
\* groq_chat_complete + json.loads in the planner
PlanOutcomes == {"json", "raw", "error"}

\* One generated query: <<layer it was generated for, passes EXPLAIN>>
Queries(layer) ==
    UNION { [1..n -> {<<layer, TRUE>>, <<layer, FALSE>>}] : n \in 0..MaxQueries }

\* self.llm.ainvoke + json.loads in codegen
CodeGenOutcomes(layer) ==
    { [kind |-> k, queries |-> q] : k \in {"json", "markdown"}, q \in Queries(layer) }
    \cup { [kind |-> "error", queries |-> << >>] }

\* What the advisory reviewer may put in "status" and "quality_score"
AdvisoryStatuses == {"APPROVED", "NEEDS_REVISION", "REJECTED", "", "approved"}
AdvisoryScores == {-5, 90, 150}
ReviewOutcomes ==
    { [kind |-> "json", status |-> st, score |-> sc] :
          st \in AdvisoryStatuses, sc \in AdvisoryScores }
    \cup { [kind |-> k, status |-> "", score |-> 0] : k \in {"malformed", "error"} }

\* check_pr_status: merged, not merged, or the "status": "error" dict
PrStatuses == {"merged", "open", "error"}

\* create_bronze_table / execute_*_transformation seen from the executor:
\* a result dict with status success or error, or an exception of .invoke
ExecResults == {"success", "error", "raise"}

\* the services behind analyze_layer_output
AnalysisOutcomes == {"success", "success_noquality", "error"}

SummaryOutcomes == {"ok", "error"}

(***************************************************************************)
(* Planner                                                                 *)
(***************************************************************************)
\* Variant: every later layer is given the bronze context
PreviousLayer_AlwaysBronze(layer) ==
    IF layer = "bronze" THEN "none" ELSE "bronze"

\* The layer whose context a step for `layer` formats, "none" for bronze
PreviousLayer(layer) ==
    IF layer = "bronze" THEN "none"
    ELSE IF layer = "silver" THEN "bronze" ELSE "silver"

\* _build_context_section: what the planner's prompt is built from - the
\* source table for bronze, else the context of the layer before, else the
\* "context unavailable" text
build_context_section(s, current_layer) ==
    IF current_layer = "bronze"
    THEN [kind |-> "source", table |-> s.source_table, context |-> NoContext]
    ELSE IF s.context[PreviousLayer(current_layer)].set
    THEN [kind |-> "context",
          table |-> s.context[PreviousLayer(current_layer)].table_name,
          context |-> s.context[PreviousLayer(current_layer)]]
    ELSE [kind |-> "unavailable", table |-> EmptyString, context |-> NoContext]

\* the stored quality metrics are the error dict
ContextFormatRaises(s, layer) ==
    /\ PreviousLayer(layer) # "none"
    /\ s.context[PreviousLayer(layer)].set
    /\ ~s.context[PreviousLayer(layer)].quality_ok

PlannerAgent(s, out) ==
    LET layer == s.current_layer
        planned ==
            IF out = "json" THEN
                [s EXCEPT !.transformation_plan = <<"text", layer>>,
                          !.test_plan = <<"text", layer>>]
            ELSE IF out = "raw" THEN
                [s EXCEPT !.transformation_plan = <<"text", layer>>,
                          !.test_plan = <<"text", layer>>]
            ELSE
                [s EXCEPT !.error_log = Append(@, "Planning error"),
                          !.transformation_plan = <<"error", layer>>,
                          !.test_plan = <<"unable", layer>>]
    IN  IF ContextFormatRaises(s, layer)
        THEN [state |-> s, raised |-> TRUE]
        ELSE [state |-> [planned EXCEPT !.current_agent = "planner",
                                         !.workflow_status = <<layer, "planned">>],
              raised |-> FALSE]

(***************************************************************************)
(* Code generation                                                         *)
(***************************************************************************)
\* _get_source_table: the table the generated code is told to read
get_source_table(s, layer) ==
    IF layer = "bronze" THEN s.source_table
    ELSE IF s.context[PreviousLayer(layer)].set
    THEN s.context[PreviousLayer(layer)].table_name
    ELSE s.source_table

CodeGenAgent(s, out) ==
    LET layer == s.current_layer
        target_table == TargetTable(s.source_table, layer)
        generated ==
            IF out.kind = "json" THEN
                [s EXCEPT !.sql_queries = out.queries,
                          !.pyspark_code = <<"text", layer>>,
                          !.test_code = <<"text", layer>>,
                          !.current_table_output = target_table]
            ELSE IF out.kind = "markdown" THEN
                [s EXCEPT !.sql_queries = out.queries,
                          !.pyspark_code = <<"text", layer>>,
                          !.test_code = <<"text", layer>>,
                          !.current_table_output = target_table]
            ELSE
                [s EXCEPT !.error_log = Append(@, "CodeGen error"),
                          !.sql_queries = << >>,
                          !.pyspark_code = << >>]
    IN  IF ContextFormatRaises(s, layer) \/ Len(Split(s.source_table)) # 3
        THEN [state |-> s, raised |-> TRUE]
        ELSE [state |-> [generated EXCEPT !.current_agent = "codegen",
                                           !.workflow_status = <<layer, "coded">>],
              raised |-> FALSE]

(***************************************************************************)
(* Review                                                                  *)
(***************************************************************************)
Min(a, b) == IF a < b THEN a ELSE b

SyntaxCeiling == 60

\* validate_sql_syntax over every query of the state
SyntaxValid(s) == \A i \in 1..Len(s.sql_queries) : s.sql_queries[i][2]

\* Variant: a failed syntax check overrides the status but leaves the
\* advisory score as it is
ReviewerAgent_NoCap(s, out) ==
    LET layer == s.current_layer
        syntax_valid == SyntaxValid(s)
        reviewed ==
            IF out.kind = "json" THEN
                [s EXCEPT !.review_status =
                              IF syntax_valid THEN out.status ELSE "NEEDS_REVISION",
                          !.code_quality_score = out.score,
                          !.review_comments =
                              IF syntax_valid THEN "advisory" ELSE "syntax"]
            ELSE IF out.kind = "malformed" THEN
                [s EXCEPT !.review_status =
                              IF syntax_valid THEN "APPROVED" ELSE "NEEDS_REVISION",
                          !.code_quality_score = IF syntax_valid THEN 75 ELSE 50,
                          !.review_comments = "limited"]
            ELSE
                [s EXCEPT !.error_log = Append(@, "Review error"),
                          !.review_status = "NEEDS_REVISION",
                          !.code_quality_score = 0,
                          !.review_comments = "failed"]
    IN  [state |-> [reviewed EXCEPT !.current_agent = "reviewer",
                                     !.workflow_status = <<layer, "reviewed">>],
         raised |-> FALSE]

ReviewerAgent(s, out) ==
    LET layer == s.current_layer
        syntax_valid == SyntaxValid(s)
        reviewed ==
            IF out.kind = "json" THEN
                IF ~syntax_valid
                THEN [s EXCEPT !.review_status = "NEEDS_REVISION",
                               !.code_quality_score = Min(out.score, SyntaxCeiling),
                               !.review_comments = "syntax"]
                ELSE [s EXCEPT !.review_status = out.status,
                               !.code_quality_score = out.score,
                               !.review_comments = "advisory"]
            ELSE IF out.kind = "malformed" THEN
                [s EXCEPT !.review_status =
                              IF syntax_valid THEN "APPROVED" ELSE "NEEDS_REVISION",
                          !.code_quality_score = IF syntax_valid THEN 75 ELSE 50,
                          !.review_comments = "limited"]
            ELSE
                [s EXCEPT !.error_log = Append(@, "Review error"),
                          !.review_status = "NEEDS_REVISION",
                          !.code_quality_score = 0,
                          !.review_comments = "failed"]
    IN  [state |-> [reviewed EXCEPT !.current_agent = "reviewer",
                                     !.workflow_status = <<layer, "reviewed">>],
         raised |-> FALSE]

\* Variant: approved code goes to the executor without a PR
should_create_pr_SkipSubmit(s) ==
    IF s.review_status = "APPROVED" THEN "executor" ELSE "summary"

\* Variant: only a review that asks for a revision keeps the code away from
\* Submit
should_create_pr_OnlyNeedsRevision(s) ==
    IF s.review_status = "NEEDS_REVISION" THEN "summary" ELSE "pr_creator"

\* Variant: only an explicit rejection keeps the code away from Submit
should_create_pr_Lenient(s) ==
    IF s.review_status = "REJECTED" THEN "summary" ELSE "pr_creator"

\* Router after the reviewer
should_create_pr(s) ==
    IF s.review_status = "APPROVED" THEN "pr_creator" ELSE "summary"

(***************************************************************************)
(* Submit (PR creation)                                                    *)
(***************************************************************************)
HasSubmission(s, layer) ==
    \E i \in 1..Len(s.pr_history) : s.pr_history[i].layer = layer

\* Creates the approval handle and appends one record to the submission
\* history; at most one record per layer per run.
PRCreatorAgent(s) ==
    LET layer == s.current_layer
        number == Len(s.pr_history) + 1
    IN  IF HasSubmission(s, layer)
        THEN [state |-> s, raised |-> FALSE]
        ELSE [state |-> [s EXCEPT !.current_pr_number = number,
                                   !.current_pr_merged = FALSE,
                                   !.pr_history = Append(@,
                                        [layer |-> layer, pr_number |-> number])],
              raised |-> FALSE]

(***************************************************************************)
(* Execute                                                                 *)
(***************************************************************************)
\* _execute_bronze / _execute_silver / _execute_gold: the table handed to
\* the transformation tool as its input
execute_source_table(s, layer) ==
    IF layer = "bronze" THEN s.source_table
    ELSE IF s.context[PreviousLayer(layer)].set
    THEN s.context[PreviousLayer(layer)].table_name
    ELSE s.source_table

\* Variant: anything but a PR reported as open counts as merged
Merged_UnlessOpen(pr_status) == pr_status # "open"

\* pr_status.get("merged", False): the error dict has no "merged" key
Merged(pr_status) == pr_status = "merged"

\* Variant: only a PR reported as not merged holds the execution back, a
\* failed status check does not
ExecutorAgent_ErrorPasses(s, pr_status, result) ==
    LET layer == s.current_layer
        target_table == TargetTable(s.source_table, layer)
    IN  IF pr_status = "open"
        THEN [state |-> [s EXCEPT !.execution_status = "awaiting_pr_merge",
                                   !.workflow_status = <<"awaiting_merge">>],
              raised |-> FALSE]
        ELSE [state |-> [s EXCEPT !.current_pr_merged = TRUE,
                                   !.current_table_output = target_table,
                                   !.execution_status = "success",
                                   !.rows_processed = 1,
                                   !.data_quality_metrics = "empty",
                                   !.current_agent = "executor",
                                   !.workflow_status = <<layer, "executed">>],
              raised |-> FALSE]

\* Variant: the executor itself records a context for the table it wrote
ExecutorAgent_StoresContext(s, pr_status, result) ==
    LET layer == s.current_layer
        target_table == TargetTable(s.source_table, layer)
        merged == [s EXCEPT !.current_pr_merged = TRUE,
                            !.current_table_output = target_table,
                            !.context[layer] =
                                [NoContext EXCEPT !.set = TRUE,
                                                  !.layer_name = layer,
                                                  !.table_name = target_table]]
        executed ==
            IF result = "raise" THEN
                [merged EXCEPT !.execution_status = "failed",
                               !.error_log = Append(@, "Exception during execution")]
            ELSE IF result = "success" THEN
                [merged EXCEPT !.execution_status = "success",
                               !.rows_processed = 1,
                               !.data_quality_metrics = "empty",
                               !.current_agent = "executor",
                               !.workflow_status = <<layer, "executed">>]
            ELSE
                [merged EXCEPT !.execution_status = "error",
                               !.rows_processed = 0,
                               !.data_quality_metrics = "empty",
                               !.current_agent = "executor",
                               !.workflow_status = <<layer, "executed">>,
                               !.error_log = Append(@, "Execution failed")]
    IN  IF ~Merged(pr_status)
        THEN [state |-> [s EXCEPT !.execution_status = "awaiting_pr_merge",
                                   !.workflow_status = <<"awaiting_merge">>],
              raised |-> FALSE]
        ELSE IF Len(Split(s.source_table)) # 3
        THEN [state |-> [s EXCEPT !.current_pr_merged = TRUE], raised |-> TRUE]
        ELSE [state |-> executed, raised |-> FALSE]

\* Variant: the target table is derived and stored before the merge check
ExecutorAgent_DerivesBeforeCheck(s, pr_status, result) ==
    LET layer == s.current_layer
        target_table == TargetTable(s.source_table, layer)
        merged == [s EXCEPT !.current_pr_merged = TRUE,
                            !.current_table_output = target_table]
        executed ==
            IF result = "raise" THEN
                [merged EXCEPT !.execution_status = "failed",
                               !.error_log = Append(@, "Exception during execution")]
            ELSE IF result = "success" THEN
                [merged EXCEPT !.execution_status = "success",
                               !.rows_processed = 1,
                               !.data_quality_metrics = "empty",
                               !.current_agent = "executor",
                               !.workflow_status = <<layer, "executed">>]
            ELSE
                [merged EXCEPT !.execution_status = "error",
                               !.rows_processed = 0,
                               !.data_quality_metrics = "empty",
                               !.current_agent = "executor",
                               !.workflow_status = <<layer, "executed">>,
                               !.error_log = Append(@, "Execution failed")]
    IN  IF Len(Split(s.source_table)) # 3
        THEN [state |-> s, raised |-> TRUE]
        ELSE IF ~Merged(pr_status)
        THEN [state |-> [s EXCEPT !.current_table_output = target_table,
                                   !.execution_status = "awaiting_pr_merge",
                                   !.workflow_status = <<"awaiting_merge">>],
              raised |-> FALSE]
        ELSE [state |-> executed, raised |-> FALSE]

ExecutorAgent(s, pr_status, result) ==
    LET layer == s.current_layer
        target_table == TargetTable(s.source_table, layer)
        merged == [s EXCEPT !.current_pr_merged = TRUE,
                            !.current_table_output = target_table]
        executed ==
            IF result = "raise" THEN
                [merged EXCEPT !.execution_status = "failed",
                               !.error_log = Append(@, "Exception during execution")]
            ELSE IF result = "success" THEN
                [merged EXCEPT !.execution_status = "success",
                               !.rows_processed = 1,
                               !.data_quality_metrics = "empty",
                               !.current_agent = "executor",
                               !.workflow_status = <<layer, "executed">>]
            ELSE
                [merged EXCEPT !.execution_status = "error",
                               !.rows_processed = 0,
                               !.data_quality_metrics = "empty",
                               !.current_agent = "executor",
                               !.workflow_status = <<layer, "executed">>,
                               !.error_log = Append(@, "Execution failed")]
    IN  IF ~Merged(pr_status)
        THEN [state |-> [s EXCEPT !.execution_status = "awaiting_pr_merge",
                                   !.workflow_status = <<"awaiting_merge">>],
              raised |-> FALSE]
        ELSE IF Len(Split(s.source_table)) # 3
        THEN [state |-> [s EXCEPT !.current_pr_merged = TRUE], raised |-> TRUE]
        ELSE [state |-> executed, raised |-> FALSE]

(***************************************************************************)
(* Enrich                                                                  *)
(***************************************************************************)
\* analyze_layer_output: a name that does not split into three parts is an
\* error whatever the warehouse would answer
analyze_layer_output(table_name, outcome) ==
    IF Len(Split(table_name)) # 3 THEN "error" ELSE outcome

\* Variant: the completed layer stays in layers_remaining
ContextEnrichmentAgent_NoRemove(s, analysis_result, now) ==
    LET current_layer == s.current_layer
        layer_context ==
            [set |-> TRUE, layer_name |-> current_layer,
             table_name |-> s.current_table_output,
             quality_ok |-> (analysis_result = "success"),
             pr_number |-> s.current_pr_number,
             pr_merged |-> s.current_pr_merged,
             transformation_summary |-> s.transformation_plan,
             execution_timestamp |-> now]
    IN  IF analysis_result = "error"
        THEN [state |-> [s EXCEPT !.error_log = Append(@, "Context enrichment failed")],
              raised |-> FALSE]
        ELSE [state |-> [s EXCEPT
                  !.context[current_layer] = layer_context,
                  !.layers_completed =
                      IF ~InSeq(current_layer, @) THEN Append(@, current_layer) ELSE @,
                  !.current_agent = "context_enrichment"],
              raised |-> FALSE]

\* Variant: a failed analysis still takes the layer out of layers_remaining
ContextEnrichmentAgent_DropOnError(s, analysis_result, now) ==
    LET current_layer == s.current_layer
        layer_context ==
            [set |-> TRUE, layer_name |-> current_layer,
             table_name |-> s.current_table_output,
             quality_ok |-> (analysis_result = "success"),
             pr_number |-> s.current_pr_number,
             pr_merged |-> s.current_pr_merged,
             transformation_summary |-> s.transformation_plan,
             execution_timestamp |-> now]
        dropped ==
            [s EXCEPT !.layers_remaining =
                          IF InSeq(current_layer, @) THEN Remove(@, current_layer) ELSE @]
    IN  IF analysis_result = "error"
        THEN [state |-> [dropped EXCEPT
                             !.error_log = Append(@, "Context enrichment failed")],
              raised |-> FALSE]
        ELSE [state |-> [dropped EXCEPT
                  !.context[current_layer] = layer_context,
                  !.layers_completed =
                      IF ~InSeq(current_layer, @) THEN Append(@, current_layer) ELSE @,
                  !.current_agent = "context_enrichment"],
              raised |-> FALSE]

ContextEnrichmentAgent(s, analysis_result, now) ==
    LET current_layer == s.current_layer
        layer_context ==
            [set |-> TRUE,
             layer_name |-> current_layer,
             table_name |-> s.current_table_output,
             quality_ok |-> (analysis_result = "success"),
             pr_number |-> s.current_pr_number,
             pr_merged |-> s.current_pr_merged,
             transformation_summary |-> s.transformation_plan,
             execution_timestamp |-> now]
        stored == [s EXCEPT !.context[current_layer] = layer_context]
        completed ==
            [stored EXCEPT
                !.layers_completed =
                    IF ~InSeq(current_layer, @) THEN Append(@, current_layer) ELSE @,
                !.layers_remaining =
                    IF InSeq(current_layer, @) THEN Remove(@, current_layer) ELSE @,
                !.current_agent = "context_enrichment"]
    IN  IF analysis_result = "error"
        THEN [state |-> [s EXCEPT !.error_log = Append(@, "Context enrichment failed")],
              raised |-> FALSE]
        ELSE IF current_layer = "silver" /\ analysis_result = "success_noquality"
        THEN [state |-> stored, raised |-> TRUE]
        ELSE [state |-> completed, raised |-> FALSE]

\* Variant: the run goes to the summary while one layer still remains
should_process_next_layer_FinishEarly(s) ==
    IF Len(s.layers_remaining) > 1
    THEN [next |-> "planner",
          state |-> [s EXCEPT !.current_layer = s.layers_remaining[1]]]
    ELSE [next |-> "summary", state |-> s]

\* Variant: the loop goes back to the planner without moving current_layer
should_process_next_layer_Stay(s) ==
    IF s.layers_remaining # << >>
    THEN [next |-> "planner", state |-> s]
    ELSE [next |-> "summary", state |-> s]

\* Variant: the loop goes back to the first target layer
should_process_next_layer_Restart(s) ==
    IF s.layers_remaining # << >>
    THEN [next |-> "planner",
          state |-> [s EXCEPT !.current_layer = s.target_layers[1]]]
    ELSE [next |-> "summary", state |-> s]

\* Router after Enrich: the next node, and the state it leaves behind.  The
\* router assigns state["current_layer"] on the dict it is handed; the
\* assignment is taken to reach the state the next node sees, as the
\* loop-back to the planner "with fresh context" requires.
should_process_next_layer(s) ==
    IF s.layers_remaining # << >>
    THEN [next |-> "planner",
          state |-> [s EXCEPT !.current_layer = s.layers_remaining[1]]]
    ELSE [next |-> "summary", state |-> s]

(***************************************************************************)
(* Finish (summary)                                                        *)
(***************************************************************************)
\* Variant: the summary also clears the execution status
SummaryAgent_ClearsStatus(s, out) ==
    LET summarised ==
            IF out = "ok"
            THEN [s EXCEPT !.executive_summary = "llm"]
            ELSE [s EXCEPT !.error_log = Append(@, "Summary error"),
                           !.executive_summary = "fallback"]
    IN  [state |-> [summarised EXCEPT !.current_agent = "summary",
                                       !.execution_status = "",
                                       !.workflow_status = <<"completed">>],
         raised |-> FALSE]

\* Variant: a failed summary starts the error log afresh
SummaryAgent_ResetLog(s, out) ==
    LET summarised ==
            IF out = "ok"
            THEN [s EXCEPT !.executive_summary = "llm"]
            ELSE [s EXCEPT !.error_log = <<"Summary error">>,
                           !.executive_summary = "fallback"]
    IN  [state |-> [summarised EXCEPT !.current_agent = "summary",
                                       !.workflow_status = <<"completed">>],
         raised |-> FALSE]

SummaryAgent(s, out) ==
    LET summarised ==
            IF out = "ok"
            THEN [s EXCEPT !.executive_summary = "llm"]
            ELSE [s EXCEPT !.error_log = Append(@, "Summary error"),
                           !.executive_summary = "fallback"]
    IN  [state |-> [summarised EXCEPT !.current_agent = "summary",
                                       !.workflow_status = <<"completed">>],
         raised |-> FALSE]

(***************************************************************************)
(* Initial state: run_full_medallion_pipeline                              *)
(***************************************************************************)
InitialState(source) ==
    [ source_table         |-> source,
      current_layer        |-> "bronze",
      target_layers        |-> TargetLayers,
      context              |-> [l \in Layers |-> NoContext],
      transformation_plan  |-> << >>,
      test_plan            |-> << >>,
      pyspark_code         |-> << >>,
      test_code            |-> << >>,
      sql_queries          |-> << >>,
      review_status        |-> "",
      review_comments      |-> "",
      code_quality_score   |-> 0,
      current_pr_number    |-> 0,
      current_pr_merged    |-> FALSE,
      pr_history           |-> << >>,
      execution_status     |-> "",
      current_table_output |-> EmptyString,
      rows_processed       |-> 0,
      data_quality_metrics |-> "",
      layers_completed     |-> << >>,
      layers_remaining     |-> <<"bronze", "silver", "gold">>,
      executive_summary    |-> "",
      current_agent        |-> "",
      workflow_status      |-> <<"initializing">>,
      error_log            |-> << >> ]

Init ==
    /\ \E source \in SourceTables : state = InitialState(source)
    /\ node = "planner"
    /\ last_node = "START"
    /\ steps = 0
    /\ plan_visits = 0
    /\ approval_observed = {}
    /\ exec_status_of = [l \in Layers |-> ""]
    /\ last_pr_check = "none"
    /\ last_analysis = "none"
    /\ enrich_layer = "none"
    /\ invocations = 1
    /\ resume_layer = "none"
    /\ all_ok = TRUE
    /\ collab_failed = FALSE

(***************************************************************************)
(* The graph: one action per node and per router                           *)
(***************************************************************************)
\* Bookkeeping shared by every step of the graph
Ran(name) ==
    /\ last_node' = name
    /\ steps' = steps + 1

\* A failing collaborator is drawn only while the error log has room
Room(failing) == failing => Len(state.error_log) < MaxErrors

Plan ==
    /\ node = "planner"
    /\ plan_visits < MaxPlanVisits
    /\ Ran("planner")
    /\ \E out \in PlanOutcomes :
          /\ Room(out = "error")
          /\ LET r == PlannerAgent(state, out)
             IN  /\ state' = r.state
                 /\ node' = IF r.raised THEN "raised" ELSE "codegen"
                 /\ collab_failed' = (out = "error" /\ ~r.raised)
    /\ plan_visits' = plan_visits + 1
    /\ UNCHANGED <<approval_observed, exec_status_of, last_pr_check,
                   last_analysis, enrich_layer, invocations, resume_layer, all_ok>>

Generate ==
    /\ node = "codegen"
    /\ Ran("codegen")
    /\ \E out \in CodeGenOutcomes(state.current_layer) :
          /\ Room(out.kind = "error")
          /\ LET r == CodeGenAgent(state, out)
             IN  /\ state' = r.state
                 /\ node' = IF r.raised THEN "raised" ELSE "reviewer"
                 /\ collab_failed' = (out.kind = "error" /\ ~r.raised)
    /\ UNCHANGED <<plan_visits, approval_observed, exec_status_of, last_pr_check,
                   last_analysis, enrich_layer, invocations, resume_layer, all_ok>>

Review ==
    /\ node = "reviewer"
    /\ Ran("reviewer")
    /\ \E out \in ReviewOutcomes :
          /\ Room(out.kind = "error")
          /\ LET r == ReviewerAgent(state, out)
             IN  /\ state' = r.state
                 /\ node' = IF r.raised THEN "raised" ELSE "should_create_pr"
                 /\ all_ok' = (all_ok /\ r.state.review_status = "APPROVED")
                 /\ collab_failed' = (out.kind = "error")
    /\ UNCHANGED <<plan_visits, approval_observed, exec_status_of, last_pr_check,
                   last_analysis, enrich_layer, invocations, resume_layer>>

RouteAfterReview ==
    /\ node = "should_create_pr"
    /\ Ran("should_create_pr")
    /\ node' = should_create_pr(state)
    /\ collab_failed' = FALSE
    /\ UNCHANGED <<state, plan_visits, approval_observed, exec_status_of,
                   last_pr_check, last_analysis, enrich_layer, invocations,
                   resume_layer, all_ok>>

Submit ==
    /\ node = "pr_creator"
    /\ Ran("pr_creator")
    /\ LET r == PRCreatorAgent(state)
       IN  /\ state' = r.state
           /\ node' = IF r.raised THEN "raised" ELSE "executor"
    /\ collab_failed' = FALSE
    /\ UNCHANGED <<plan_visits, approval_observed, exec_status_of, last_pr_check,
                   last_analysis, enrich_layer, invocations, resume_layer, all_ok>>

Execute ==
    /\ node = "executor"
    /\ Ran("executor")
    /\ \E pr_status \in PrStatuses, result \in ExecResults :
          /\ ~Merged(pr_status) => result = "success"
          /\ Room(Merged(pr_status) /\ result # "success")
          /\ LET r == ExecutorAgent(state, pr_status, result)
             IN  /\ state' = r.state
                 /\ node' = IF r.raised THEN "raised" ELSE "context_enrichment"
                 /\ exec_status_of' =
                        IF r.raised THEN exec_status_of
                        ELSE [exec_status_of EXCEPT
                                 ![state.current_layer] = r.state.execution_status]
          /\ last_pr_check' = pr_status
          /\ all_ok' = (all_ok /\ pr_status = "merged" /\ result = "success")
          /\ collab_failed' = (pr_status = "error" \/ result # "success")
          /\ approval_observed' =
                 IF pr_status = "merged"
                 THEN approval_observed \cup {state.current_layer}
                 ELSE approval_observed
    /\ UNCHANGED <<plan_visits, last_analysis, enrich_layer, invocations,
                   resume_layer>>

Enrich ==
    /\ node = "context_enrichment"
    /\ Ran("context_enrichment")
    /\ \E outcome \in AnalysisOutcomes :
          LET analysis_result ==
                  analyze_layer_output(state.current_table_output, outcome)
              r == ContextEnrichmentAgent(state, analysis_result, steps + 1)
          IN  /\ Room(outcome = "error")
              /\ state' = r.state
              /\ node' = IF r.raised THEN "raised" ELSE "should_process_next_layer"
              /\ last_analysis' = analysis_result
              /\ all_ok' = (all_ok /\ analysis_result = "success")
              /\ collab_failed' = (analysis_result = "error")
    /\ enrich_layer' = state.current_layer
    /\ resume_layer' = IF resume_layer = state.current_layer THEN "none"
                       ELSE resume_layer
    /\ UNCHANGED <<plan_visits, approval_observed, exec_status_of, last_pr_check,
                   invocations>>

RouteAfterEnrich ==
    /\ node = "should_process_next_layer"
    /\ Ran("should_process_next_layer")
    /\ LET r == should_process_next_layer(state)
       IN  /\ state' = r.state
           /\ node' = r.next
    /\ collab_failed' = FALSE
    /\ UNCHANGED <<plan_visits, approval_observed, exec_status_of, last_pr_check,
                   last_analysis, enrich_layer, invocations, resume_layer, all_ok>>

Finish ==
    /\ node = "summary"
    /\ Ran("summary")
    /\ \E out \in SummaryOutcomes :
          /\ Room(out = "error")
          /\ LET r == SummaryAgent(state, out)
             IN  /\ state' = r.state
                 /\ node' = IF r.raised THEN "raised" ELSE "END"
                 /\ collab_failed' = (out = "error")
    /\ UNCHANGED <<plan_visits, approval_observed, exec_status_of, last_pr_check,
                   last_analysis, enrich_layer, invocations, resume_layer, all_ok>>

\* MEDALLION_PIPELINE.ainvoke on the state an earlier invocation returned:
\* the graph is entered at START again
Reinvoke ==
    /\ node = "END"
    /\ invocations < MaxInvocations
    /\ node' = "planner"
    /\ last_node' = "START"
    /\ invocations' = invocations + 1
    /\ resume_layer' = IF state.execution_status = "awaiting_pr_merge"
                       THEN state.current_layer ELSE "none"
    /\ collab_failed' = FALSE
    /\ UNCHANGED <<state, steps, plan_visits, approval_observed, exec_status_of,
                   last_pr_check, last_analysis, enrich_layer, all_ok>>

Next ==
    \/ Plan
    \/ Generate
    \/ Review
    \/ RouteAfterReview
    \/ Submit
    \/ Execute
    \/ Enrich
    \/ RouteAfterEnrich
    \/ Finish

Spec == Init /\ [][Next]_vars

NextResume == Next \/ Reinvoke

SpecResume == Init /\ [][NextResume]_vars

(***************************************************************************)
(* Properties                                                              *)
(***************************************************************************)
IsPrefix(p, t) == Len(p) <= Len(t) /\ SubSeq(t, 1, Len(p)) = p
IsSuffix(r, t) == Len(r) <= Len(t) /\ SubSeq(t, Len(t) - Len(r) + 1, Len(t)) = r
Elems(q) == { q[i] : i \in 1..Len(q) }

\* C1: in every run from the initial state, whatever the collaborators
\* answer, the planner runs at most 3 times (once per target layer) before
\* the run reaches Finish.
C1_PlanAtMostThreeTimes == plan_visits <= Len(TargetLayers)

\* C2: when the analysis of Enrich failed, the router evaluated after Enrich
\* sends the run to Finish, the failure is in error_log and the layer is
\* still in layers_remaining.
C2_EnrichFailureRoutesToFinish ==
    (last_node = "should_process_next_layer" /\ last_analysis = "error")
        => /\ node = "summary"
           /\ InSeq("Context enrichment failed", state.error_log)
           /\ InSeq(enrich_layer, state.layers_remaining)

\* C3: layers_completed and layers_remaining are disjoint, their union is
\* target_layers, layers_completed is a prefix of target_layers and
\* layers_remaining is the matching suffix.
C3_Partition ==
    /\ Elems(state.layers_completed) \cap Elems(state.layers_remaining) = {}
    /\ Elems(state.layers_completed) \cup Elems(state.layers_remaining)
           = Elems(state.target_layers)
    /\ IsPrefix(state.layers_completed, state.target_layers)
    /\ IsSuffix(state.layers_remaining, state.target_layers)
    /\ state.layers_completed \o state.layers_remaining = state.target_layers

C3_Witness ==
    /\ last_node = "context_enrichment"
    /\ state.layers_completed = <<"bronze", "silver">>
    /\ state.layers_remaining = <<"gold">>

\* C4: the latest execution status Execute wrote for a layer is "success"
\* only if Execute saw that layer's PR merged, in that call or an earlier one.
C4_ApprovalGating ==
    \A l \in Layers : exec_status_of[l] = "success" => l \in approval_observed

C4_Witness ==
    /\ last_node = "executor"
    /\ state.current_layer = "silver"
    /\ exec_status_of["silver"] = "success"
    /\ last_pr_check = "merged"

\* C5: when Execute found the PR of the current layer not merged, the status
\* is awaiting_pr_merge and the run pauses: no Enrich step runs for that
\* layer and the layer does not enter layers_completed.
C5_PauseOnUnapproved ==
    \A l \in Layers :
        exec_status_of[l] = "awaiting_pr_merge"
            => /\ ~(last_node = "context_enrichment" /\ enrich_layer = l)
               /\ ~InSeq(l, state.layers_completed)

\* C6: a layer whose latest execution status is failed, error or
\* awaiting_pr_merge is not in layers_completed and has no context.
C6_EnrichOnlyAfterSuccess ==
    \A l \in Layers :
        exec_status_of[l] \in {"failed", "error", "awaiting_pr_merge"}
            => /\ ~InSeq(l, state.layers_completed)
               /\ ~state.context[l].set

\* C7: once the context of a layer is set, every later step leaves it as
\* it is.
C7_ContextMonotone ==
    [][\A l \in Layers :
          state.context[l].set => state'.context[l] = state.context[l]]_vars

C7_Witness ==
    /\ state.context["bronze"].set
    /\ last_node = "context_enrichment"
    /\ enrich_layer = "gold"
    /\ state.context["gold"].set

\* C8: a graph re-invoked with the state of a run that ended awaiting the
\* merge of a layer goes on with Execute and Enrich for that layer; Plan,
\* Generate and Review do not run again for it.
C8_ResumeSkipsPlanning ==
    resume_layer # "none" => last_node \notin {"planner", "codegen", "reviewer"}

\* C9: an Enrich step whose analysis failed leaves layers_completed,
\* layers_remaining and every context unchanged and appends exactly one
\* enrichment-failure entry to error_log.
C9_EnrichFailsClosed ==
    [][(node = "context_enrichment" /\ node' # node /\ last_analysis' = "error")
          => /\ state'.layers_completed = state.layers_completed
             /\ state'.layers_remaining = state.layers_remaining
             /\ state'.context = state.context
             /\ state'.error_log =
                    Append(state.error_log, "Context enrichment failed")]_vars

C9_Witness ==
    /\ last_node = "context_enrichment"
    /\ last_analysis = "error"
    /\ state.layers_completed = <<"bronze">>

\* C10: the router after Review returns pr_creator exactly when
\* review_status is "APPROVED" and summary for every other value, so Submit
\* runs only for an approved review.
C10_ReviewRouter ==
    /\ last_node = "should_create_pr"
          => /\ node \in {"pr_creator", "summary"}
             /\ node = "pr_creator" <=> state.review_status = "APPROVED"
    /\ last_node = "pr_creator" => state.review_status = "APPROVED"

C10_Witness ==
    /\ last_node = "should_create_pr"
    /\ state.review_status = "NEEDS_REVISION"
    /\ node = "summary"

\* C11: in a run with a well-formed source table in which every review is
\* approved, every PR is merged at its first check, every execution and
\* every analysis succeeds, no step raises, every review leads to Submit and
\* the run reaches the summary only with layers_completed = [bronze, silver,
\* gold], layers_remaining = [] and a context for each of the three layers.
C11_AllApprovedCompletes ==
    (all_ok /\ state.source_table = GoodSource)
        => /\ node # "raised"
           /\ last_node = "should_create_pr" => node = "pr_creator"
           /\ node \in {"summary", "END"}
                 => /\ state.layers_completed = <<"bronze", "silver", "gold">>
                    /\ state.layers_remaining = << >>
                    /\ \A l \in Layers : state.context[l].set

C11_Witness ==
    /\ all_ok
    /\ node = "END"
    /\ last_node = "summary"
    /\ plan_visits = 3

C12_FirstReviewRejected ==
    /\ plan_visits = 1
    /\ state.review_status = "REJECTED"
    /\ last_node \in {"reviewer", "should_create_pr"}

\* C12 (as stated): when the first review of the run rejects bronze, every
\* step from Review to the end of the run leaves error_log as it was after
\* Review.
C12_RejectedLeavesLogUnchanged ==
    [][C12_FirstReviewRejected => state'.error_log = state.error_log]_vars

\* C12 (amended): when the first review of the run rejects bronze, the
\* router goes to the summary without changing the state and the summary
\* ends the run; layers_completed stays [], layers_remaining stays the
\* target layers, no context and no submission record exist, and error_log
\* is what it was after Review, or that log with one "Summary error" entry
\* appended by Finish.
C12_RejectedGoesToFinish ==
    [][C12_FirstReviewRejected
          => /\ last_node = "reviewer" => (node' = "summary" /\ state' = state)
             /\ last_node = "should_create_pr"
                   => /\ node' = "END"
                      /\ \/ state'.error_log = state.error_log
                         \/ state'.error_log =
                                Append(state.error_log, "Summary error")
             /\ state'.layers_completed = << >>
             /\ state'.layers_remaining = state.target_layers
             /\ \A l \in Layers : ~state'.context[l].set
             /\ state'.pr_history = << >>]_vars

C12_Witness ==
    /\ node = "END"
    /\ plan_visits = 1
    /\ state.review_status = "REJECTED"
    /\ state.error_log = <<"Summary error">>

\* C13: when Generate failed and left no queries and no code, the Review
\* that follows ends with review_status NEEDS_REVISION, whatever the
\* advisory reviewer returns.
C13_DegradedArtifactFailsClosed ==
    (last_node = "reviewer" /\ state.sql_queries = << >>
                            /\ state.pyspark_code = << >>)
        => state.review_status = "NEEDS_REVISION"

\* C14: when the syntax check fails for at least one query, Review ends with
\* review_status NEEDS_REVISION and a score of at most 60, on every path.
C14_SyntaxFailureForcesRevision ==
    (last_node = "reviewer" /\ ~SyntaxValid(state))
        => /\ state.review_status = "NEEDS_REVISION"
           /\ state.code_quality_score <= SyntaxCeiling

C14_Witness ==
    /\ last_node = "reviewer"
    /\ ~SyntaxValid(state)
    /\ state.code_quality_score = SyntaxCeiling
    /\ state.review_comments = "syntax"

\* C15: when the PR status check itself failed, Execute does not report
\* awaiting_pr_merge as it does for a PR that is merely not merged.
C15_CheckErrorNotConflated ==
    (last_node = "executor" /\ last_pr_check = "error")
        => state.execution_status # "awaiting_pr_merge"

\* C16: no step raises out of the graph, so the caller never gets the
\* failure message in place of the terminal state.
C16_CallerGetsTerminalState == node # "raised"

\* C17: evaluating a router leaves every field of the state unchanged.
C17_RoutersPure ==
    [][(node = "should_create_pr" \/ node = "should_process_next_layer")
          => state' = state]_vars

\* C18: whenever the planner is about to run, current_layer is the head of
\* layers_remaining; current_layer is always one of the target layers; and
\* after Enrich completed a layer the router hands the planner the next
\* layer, not the completed one.
C18_PlanForHeadOfRemaining ==
    /\ InSeq(state.current_layer, state.target_layers)
    /\ node = "planner"
          => /\ state.layers_remaining # << >>
             /\ state.current_layer = state.layers_remaining[1]
             /\ ~InSeq(state.current_layer, state.layers_completed)

C18_Witness ==
    /\ node = "planner"
    /\ last_node = "should_process_next_layer"
    /\ last_analysis = "success"
    /\ enrich_layer = "bronze"
    /\ state.current_layer = "silver"

\* C19: Submit runs at most once per layer: when the PR creator is about to
\* run, the current layer has not been through Submit and Execute before.
C19_SubmitOncePerLayer ==
    node = "pr_creator" => exec_status_of[state.current_layer] = ""

\* C20: an Enrich step for a layer that already has a context aborts the
\* run: it leaves every context as it is and records the error.
C20_DuplicateContextAborts ==
    [][(node = "context_enrichment" /\ node' # node
            /\ state.context[state.current_layer].set)
          => /\ state'.context = state.context
             /\ state'.error_log # state.error_log]_vars

\* C21: when the router after Enrich hands the run back to the planner, the
\* fields scoped to one layer (plan, generated code and queries, review
\* status and score, PR number and merged flag, execution status) are back
\* at their initial values.
C21_TransientsResetOnLoopBack ==
    (node = "planner" /\ last_node = "should_process_next_layer")
        => /\ state.transformation_plan = << >>
           /\ state.sql_queries = << >>
           /\ state.pyspark_code = << >>
           /\ state.review_status = ""
           /\ state.code_quality_score = 0
           /\ state.current_pr_number = 0
           /\ state.current_pr_merged = FALSE
           /\ state.execution_status = ""

\* C22: in a run with a three-part source table, the table name recorded in
\* the context of a layer is the name derived from source_table and that
\* layer, and so is current_table_output after a Generate that produced code
\* and after an Execute that found the PR merged.
C22_OutputReferenceStable ==
    Len(Split(state.source_table)) = 3
        => /\ \A l \in Layers :
                 state.context[l].set
                     => state.context[l].table_name
                            = TargetTable(state.source_table, l)
           /\ (last_node = "codegen" /\ state.pyspark_code # << >>)
                 => state.current_table_output
                        = TargetTable(state.source_table, state.current_layer)
           /\ (last_node = "executor" /\ last_pr_check = "merged")
                 => state.current_table_output
                        = TargetTable(state.source_table, state.current_layer)

\* C23: every node and every router leaves the error_log it found as a
\* prefix of the error_log it returns.
C23_ErrorLogAppendOnly ==
    [][IsPrefix(state.error_log, state'.error_log)]_vars

C23_Witness ==
    /\ last_node = "summary"
    /\ Len(state.error_log) = 2
    /\ state.error_log[1] = "CodeGen error"
    /\ state.error_log[2] = "Summary error"

\* C24: every node other than context enrichment, and both routers, leave
\* the context of every layer as it was.
C24_OnlyEnrichWritesContext ==
    [][node # "context_enrichment" => state'.context = state.context]_vars

C24_Witness ==
    /\ last_node = "executor"
    /\ last_pr_check = "merged"
    /\ state.current_layer = "silver"
    /\ state.context["bronze"].set
    /\ ~state.context["silver"].set

\* The node the fixed edge or the router evaluation leads to after a step
C25_NormalSuccessor(step) ==
    IF step = "planner" THEN "codegen"
    ELSE IF step = "codegen" THEN "reviewer"
    ELSE IF step = "reviewer" THEN "should_create_pr"
    ELSE IF step = "executor" THEN "context_enrichment"
    ELSE "END"

\* C25: when a collaborator of Plan, Generate, Review, Execute or Finish
\* fails, the step does not raise, appends exactly one entry to error_log
\* and the graph goes on to the node or router that normally follows.
C25_StepFailureRecorded ==
    [][(node \in {"planner", "codegen", "reviewer", "executor", "summary"}
            /\ collab_failed')
          => /\ node' # "raised"
             /\ Len(state'.error_log) = Len(state.error_log) + 1
             /\ node' = C25_NormalSuccessor(node)]_vars

\* C26: an Execute that finds the PR not merged adds nothing to error_log,
\* and a run that ends while that is the latest execution status of a layer
\* returns a state whose execution_status is awaiting_pr_merge and whose
\* workflow_status is awaiting_merge, not completed.
C26_PauseSurfacedDistinctly ==
    [][/\ (node = "executor" /\ state'.execution_status = "awaiting_pr_merge")
              => state'.error_log = state.error_log
       /\ (node' = "END"
              /\ \E l \in Layers : exec_status_of[l] = "awaiting_pr_merge")
              => /\ state'.execution_status = "awaiting_pr_merge"
                 /\ state'.workflow_status = <<"awaiting_merge">>]_vars

\* C27: after every Review the quality score is between 0 and 100.
C27_ReviewScoreBounded ==
    last_node = "reviewer"
        => (state.code_quality_score >= 0 /\ state.code_quality_score <= 100)

\* The nodes an edge of the graph leads to from a node or router
C28_Edges(n) ==
    IF n = "planner" THEN {"codegen"}
    ELSE IF n = "codegen" THEN {"reviewer"}
    ELSE IF n = "reviewer" THEN {"should_create_pr"}
    ELSE IF n = "should_create_pr" THEN {"pr_creator", "summary"}
    ELSE IF n = "pr_creator" THEN {"executor"}
    ELSE IF n = "executor" THEN {"context_enrichment"}
    ELSE IF n = "context_enrichment" THEN {"should_process_next_layer"}
    ELSE IF n = "should_process_next_layer" THEN {"planner", "summary"}
    ELSE IF n = "summary" THEN {"END"}
    ELSE {}

\* C28: a node is followed only by the node an edge of the graph leads to
\* (or by the end of the run when it raises); the executor runs only right
\* after the PR creator, context enrichment only right after the executor,
\* the planner only at the start or right after the router that follows
\* context enrichment; and current_layer changes only in that router, so
\* the steps from Plan to Enrich are for the same layer.
C28_FixedGraph ==
    [][/\ node' \in C28_Edges(node) \cup {"raised"}
       /\ node' = "executor" => node = "pr_creator"
       /\ node' = "context_enrichment" => node = "executor"
       /\ node' = "planner" => node = "should_process_next_layer"
       /\ node # "should_process_next_layer"
              => state'.current_layer = state.current_layer]_vars

C28_Witness ==
    /\ node = "context_enrichment"
    /\ last_node = "executor"
    /\ state.current_layer = "gold"
    /\ plan_visits = 3

\* A context that differs from the one a layer has in any reachable state
C29_OtherContext(l) ==
    [NoContext EXCEPT !.set = TRUE, !.layer_name = l,
                      !.table_name = <<<<"other", "">>, <<"other", l>>, <<"other", l>>>>,
                      !.quality_ok = TRUE]

\* The layers whose context a step for the current layer must not read:
\* every layer but the one just before it in target_layers
C29_Unread(s) ==
    LET i == CHOOSE k \in 1..Len(s.target_layers) :
                 s.target_layers[k] = s.current_layer
    IN  { l \in Layers : i = 1 \/ l # s.target_layers[i - 1] }

\* C29: when Plan, Generate or Execute is about to run, replacing the
\* context of any layer other than the immediate predecessor of
\* current_layer (of any layer at all for the first layer) changes neither
\* what the step reads from the contexts nor what the step does.
C29_ReadsOnlyPredecessor ==
    node \in {"planner", "codegen", "executor"}
        => \A l \in C29_Unread(state) :
           \A c \in {NoContext, C29_OtherContext(l)} :
              LET layer == state.current_layer
                  other == [state EXCEPT !.context[l] = c]
              IN  /\ build_context_section(other, layer)
                         = build_context_section(state, layer)
                  /\ get_source_table(other, layer) = get_source_table(state, layer)
                  /\ execute_source_table(other, layer)
                         = execute_source_table(state, layer)
                  /\ \A out \in PlanOutcomes :
                        /\ PlannerAgent(other, out).raised
                               = PlannerAgent(state, out).raised
                        /\ PlannerAgent(other, out).state
                               = [PlannerAgent(state, out).state
                                     EXCEPT !.context[l] = c]
                  /\ \A out \in CodeGenOutcomes(layer) :
                        /\ CodeGenAgent(other, out).raised
                               = CodeGenAgent(state, out).raised
                        /\ CodeGenAgent(other, out).state
                               = [CodeGenAgent(state, out).state
                                     EXCEPT !.context[l] = c]

C29_Witness ==
    /\ node = "executor"
    /\ state.current_layer = "gold"
    /\ state.context["bronze"].set
    /\ state.context["silver"].set
    /\ execute_source_table(state, "gold") = state.context["silver"].table_name
    /\ execute_source_table(state, "gold") # state.context["bronze"].table_name

\* C30: in a run from the initial state, whenever Plan, Generate or Execute
\* is about to run for silver or gold, the context of the layer before it is
\* set, so the prompt is built from that context and the source table read
\* is that context's table, not the fallback.
C30_PredecessorContextSet ==
    (node \in {"planner", "codegen", "executor"} /\ state.current_layer # "bronze")
        => /\ state.context[PreviousLayer(state.current_layer)].set
           /\ build_context_section(state, state.current_layer).kind = "context"
           /\ get_source_table(state, state.current_layer)
                  = state.context[PreviousLayer(state.current_layer)].table_name
           /\ execute_source_table(state, state.current_layer)
                  = state.context[PreviousLayer(state.current_layer)].table_name

C30_Witness ==
    /\ node = "codegen"
    /\ state.current_layer = "silver"
    /\ build_context_section(state, "silver").kind = "context"
    /\ get_source_table(state, "silver") = TargetTable(state.source_table, "bronze")

\* C31: a layer has a context exactly when it is in layers_completed, so
\* there are as many contexts as completed layers.
C31_ContextIffCompleted ==
    /\ \A l \in Layers :
          state.context[l].set <=> InSeq(l, state.layers_completed)
    /\ Cardinality({l \in Layers : state.context[l].set})
           = Len(state.layers_completed)

C33_PauseFrame ==
    [][(node = "executor" /\ last_pr_check' = "open")
          => /\ state' = [state EXCEPT
                             !.execution_status = "awaiting_pr_merge",
                             !.workflow_status = <<"awaiting_merge">>]
             /\ ~collab_failed'
             /\ approval_observed' = approval_observed]_vars

C33_Witness ==
    /\ last_node = "executor"
    /\ last_pr_check = "open"
    /\ state.current_layer = "silver"
    /\ state.execution_status = "awaiting_pr_merge"
    /\ state.rows_processed = 1
    /\ state.current_table_output = TargetTable(state.source_table, "silver")
    /\ state.current_pr_merged = FALSE

\* C34: layers_completed and layers_remaining change only in a context
\* enrichment whose analysis did not fail, which appends current_layer to the
\* first and removes it from the second; current_layer changes only in the
\* router after context enrichment.
C34_LayerListsFrame ==
    [][/\ node # "context_enrichment"
              => /\ state'.layers_completed = state.layers_completed
                 /\ state'.layers_remaining = state.layers_remaining
       /\ node = "context_enrichment"
              => \/ /\ state'.layers_completed = state.layers_completed
                    /\ state'.layers_remaining = state.layers_remaining
                 \/ /\ last_analysis' # "error"
                    /\ InSeq(state.current_layer, state.layers_remaining)
                    /\ state'.layers_completed
                           = Append(state.layers_completed, state.current_layer)
                    /\ state'.layers_remaining
                           = Remove(state.layers_remaining, state.current_layer)
       /\ (node = "context_enrichment" /\ last_analysis' = "error")
              => /\ state'.layers_completed = state.layers_completed
                 /\ state'.layers_remaining = state.layers_remaining
       /\ node # "should_process_next_layer"
              => state'.current_layer = state.current_layer]_vars

C34_Witness ==
    /\ last_node = "should_process_next_layer"
    /\ node = "planner"
    /\ enrich_layer = "silver"
    /\ state.current_layer = "gold"
    /\ state.layers_completed = <<"bronze", "silver">>
    /\ state.layers_remaining = <<"gold">>

\* C35: the summary is the last node of a run: it is followed by END and by
\* no other step, it sets workflow_status to completed, and the state it
\* returns differs from the one it got only in executive_summary,
\* workflow_status, current_agent and at most one entry appended to
\* error_log.
C35_FinishIsLast ==
    [][/\ last_node # "summary"
       /\ node = "summary"
              => /\ node' = "END"
                 /\ state'.workflow_status = <<"completed">>
                 /\ state'.current_agent = "summary"
                 /\ \/ state'.error_log = state.error_log
                    \/ state'.error_log = Append(state.error_log, "Summary error")
                 /\ state' = [state EXCEPT
                                 !.executive_summary = state'.executive_summary,
                                 !.workflow_status = state'.workflow_status,
                                 !.current_agent = state'.current_agent,
                                 !.error_log = state'.error_log]]_vars

C35_Witness ==
    /\ node = "END"
    /\ last_node = "summary"
    /\ state.workflow_status = <<"completed">>
    /\ state.executive_summary = "fallback"
    /\ state.layers_completed = <<"bronze">>
    /\ state.execution_status = "success"

====
